---- MODULE Spec2Model ----
(***************************************************************************)
(* A model of rw-by-checker (src/main.py): one run of main(), from the     *)
(* parsed command line to the printed report.                              *)
(*                                                                         *)
(* Python values are records [kind, val]; text is a sequence of one-       *)
(* character strings, so that strip, split, replace, join and float/       *)
(* strptime parsing are computed character by character.  A word that no   *)
(* operation looks into (a city alias, a train type) may be written as a   *)
(* single element of such a sequence.                                      *)
(*                                                                         *)
(* TLA+ strings are ASCII; the source's non-ASCII literals are written:    *)
(*   "EMDASH" for the placeholder character U+2014,                        *)
(*   "Noch", "Utro", "Den", "Vecher" for the four section names,           *)
(*   "Neizvestnyj tip" for the unknown ticket type, "Sidyachij" likewise.  *)
(***************************************************************************)
EXTENDS Integers, Sequences, FiniteSets, TLC

VARIABLES pc, argv, args, presets, html, trains, stdout, work

vars == <<pc, argv, args, presets, html, trains, stdout, work>>

(***************************************************************************)
(* Python values                                                           *)
(***************************************************************************)
None == [kind |-> "NoneType", val |-> <<>>]

Str(s) == [kind |-> "str", val |-> s]

List(l) == [kind |-> "list", val |-> l]

\* A set of texts.
PySet(S) == [kind |-> "set", val |-> S]

\* A dict: a function from keys (texts) to values.
Dict(d) == [kind |-> "dict", val |-> d]

Bool(b) == [kind |-> "bool", val |-> IF b THEN <<"True">> ELSE <<"False">>]

IsNone(x) == x.kind = "NoneType"

\* a == b, for values of the kinds the model compares (None, str)
PyEq(a, b) == a.kind = b.kind /\ a.val = b.val

\* What an f-string prints for a value that is a str or None.
Format(x) == IF IsNone(x) THEN <<"None">> ELSE x.val

\* Python truthiness: None, False, "" and [] are falsy.
Truthy(x) ==
    CASE x.kind = "NoneType" -> FALSE
      [] x.kind = "bool" -> x.val = <<"True">>
      [] x.kind = "set" -> x.val # {}
      [] x.kind = "dict" -> DOMAIN x.val # {}
      [] OTHER -> Len(x.val) > 0

\* A float, held in hundredths (every price text of the model has at most
\* two fractional digits, so the value is exact).
Float(h) == [kind |-> "float", val |-> <<h>>]

Hundredths(units) == units * 100

(***************************************************************************)
(* Text                                                                    *)
(***************************************************************************)
Digits == <<"0", "1", "2", "3", "4", "5", "6", "7", "8", "9">>

IsDigit(c) == \E i \in 1..Len(Digits) : Digits[i] = c

DigitVal(c) == (CHOOSE i \in 1..Len(Digits) : Digits[i] = c) - 1

IsSpace(c) == c = " "

RECURSIVE LStrip(_)
LStrip(s) == IF s # <<>> /\ IsSpace(Head(s)) THEN LStrip(Tail(s)) ELSE s

RECURSIVE RStrip(_)
RStrip(s) ==
    IF s # <<>> /\ IsSpace(s[Len(s)]) THEN RStrip(SubSeq(s, 1, Len(s) - 1)) ELSE s

\* str.strip()
Strip(s) == RStrip(LStrip(s))

\* str.replace(a, b) for one-character a and b
Replace(s, a, b) == [i \in 1..Len(s) |-> IF s[i] = a THEN b ELSE s[i]]

RECURSIVE Join(_, _)
\* sep.join(parts), parts a sequence of texts
Join(sep, parts) ==
    IF parts = <<>> THEN <<>>
    ELSE IF Len(parts) = 1 THEN parts[1]
    ELSE parts[1] \o sep \o Join(sep, Tail(parts))

RECURSIVE Split(_, _)
\* str.split(sep) for a one-character sep: always at least one piece
Split(s, sep) ==
    IF \A i \in 1..Len(s) : s[i] # sep THEN <<s>>
    ELSE LET k == CHOOSE i \in 1..Len(s) :
                      s[i] = sep /\ \A j \in 1..(i - 1) : s[j] # sep
         IN <<SubSeq(s, 1, k - 1)>> \o Split(SubSeq(s, k + 1, Len(s)), sep)

RECURSIVE DigitsValue(_)
\* int() of a run of digits
DigitsValue(s) ==
    IF s = <<>> THEN 0
    ELSE 10 * DigitsValue(SubSeq(s, 1, Len(s) - 1)) + DigitVal(s[Len(s)])

AllDigits(s) == \A i \in 1..Len(s) : IsDigit(s[i])

\* float(text) over the characters of the model (digits, sign, ".", and
\* characters no number holds): an optional sign, digits with at most one
\* ".", at least one digit; anything else raises ValueError (the result None
\* stands for it).  Exponents, "inf", "nan" and "_" are outside the model.
PyFloat(s) ==
    LET neg == s # <<>> /\ s[1] = "-"
        signed == s # <<>> /\ s[1] \in {"-", "+"}
        body == IF signed THEN Tail(s) ELSE s
        dots == {i \in 1..Len(body) : body[i] = "."}
        ip == IF dots = {} THEN body
              ELSE SubSeq(body, 1, (CHOOSE i \in dots : TRUE) - 1)
        fp == IF dots = {} THEN <<>>
              ELSE SubSeq(body, (CHOOSE i \in dots : TRUE) + 1, Len(body))
        ok == /\ Cardinality(dots) <= 1
              /\ AllDigits(ip) /\ AllDigits(fp)
              /\ Len(ip) + Len(fp) > 0
        frac == IF Len(fp) = 0 THEN 0
                ELSE IF Len(fp) = 1 THEN 10 * DigitVal(fp[1])
                ELSE 10 * DigitVal(fp[1]) + DigitVal(fp[2])
        mag == Hundredths(DigitsValue(ip)) + frac
    IN IF ok THEN Float(IF neg THEN 0 - mag ELSE mag) ELSE None

parse_price_value(text) == PyFloat(Replace(text, ",", "."))

\* The characters of the model in code-point order; the train-type words,
\* which are compared only as wholes, stand where their spelling puts them.
CodePoints ==
    <<" ", "+", ",", "-", ".", "/",
      "0", "1", "2", "3", "4", "5", "6", "7", "8", "9", ":",
      "B", "D", "E", "N", "R", "S", "U", "Y", "_",
      "international", "interregional_business", "interregional_economy",
      "regional_business", "regional_economy", "x",
      "EMDASH">>

Ord(c) == CHOOSE i \in 1..Len(CodePoints) : CodePoints[i] = c

RECURSIVE LexLess(_, _)
\* a < b on str
LexLess(a, b) ==
    IF b = <<>> THEN FALSE
    ELSE IF a = <<>> THEN TRUE
    ELSE IF Head(a) = Head(b) THEN LexLess(Tail(a), Tail(b))
    ELSE Ord(Head(a)) < Ord(Head(b))

RECURSIVE Sorted(_)
\* sorted(S) for a set of texts
Sorted(S) ==
    IF S = {} THEN <<>>
    ELSE LET m == CHOOSE a \in S : \A b \in S \ {a} : LexLess(a, b)
         IN <<m>> \o Sorted(S \ {m})

Range(s) == {s[i] : i \in 1..Len(s)}

RECURSIVE MinOf(_)
\* min() of a non-empty sequence of floats (in hundredths)
MinOf(s) ==
    IF Len(s) = 1 THEN s[1]
    ELSE LET m == MinOf(Tail(s)) IN IF m < s[1] THEN m ELSE s[1]

(***************************************************************************)
(* parse_trains.  The parsed document is the sequence of its               *)
(* .sch-table__row elements; a row is                                      *)
(*   [train_type, selling, number : the attribute's value, None if absent; *)
(*    from_time, to_time, from_name, to_name : the sub-element's text,     *)
(*                                        None where select_one finds none;*)
(*    items : the .sch-table__t-item.has-quant elements]                   *)
(* and an item is [t_name, qty : text or None; costs, currencies : the     *)
(* texts of its .ticket-cost and .ticket-currency elements].               *)
(* An outcome is [raised, value]: raised stands for the AttributeError of  *)
(* None.text.                                                              *)
(***************************************************************************)
Ok(v) == [raised |-> FALSE, value |-> v]

Raised == [raised |-> TRUE, value |-> <<>>]

UnknownType == <<"Neizvestnyj tip">>

Placeholder == <<"EMDASH">>

StripAll(texts) == [i \in 1..Len(texts) |-> Strip(texts[i])]

\* lines 75-87: the display price of one item
price_str(raw_costs, currencies) ==
    IF raw_costs # <<>>
    THEN IF currencies # <<>>
         THEN Join(<<"/">>, raw_costs) \o <<" ">>
                  \o Join(<<"/">>, Sorted(Range(currencies)))
         ELSE Join(<<"/">>, raw_costs)
    ELSE Placeholder

\* lines 76-78: the lowest price that parses, None if none does
min_price(raw_costs) ==
    LET parsed == [i \in 1..Len(raw_costs) |-> parse_price_value(raw_costs[i])]
        price_values == SelectSeq(parsed, LAMBDA p : ~IsNone(p))
    IN IF price_values # <<>>
       THEN Float(MinOf([i \in 1..Len(price_values) |-> price_values[i].val[1]]))
       ELSE None

\* lines 71-94: one ticket
ExtractTicket(t) ==
    IF IsNone(t.t_name) \/ IsNone(t.qty) THEN Raised
    ELSE LET name == Strip(t.t_name.val)
             raw_costs == StripAll(t.costs)
         IN Ok([type |-> IF name # <<>> THEN name ELSE UnknownType,
                seats |-> Strip(t.qty.val),
                price |-> price_str(raw_costs, StripAll(t.currencies)),
                min_price |-> min_price(raw_costs)])

\* lines 64-106: one row that passed the filters
ExtractRow(row) ==
    LET ts == [i \in 1..Len(row.items) |-> ExtractTicket(row.items[i])]
    IN IF \/ IsNone(row.from_time) \/ IsNone(row.to_time)
          \/ IsNone(row.from_name) \/ IsNone(row.to_name)
          \/ \E i \in 1..Len(ts) : ts[i].raised
       THEN Raised
       ELSE LET dep_time == Strip(row.from_time.val)
                arr_time == Strip(row.to_time.val)
            IN Ok([number |-> row.number,
                   train_type |-> row.train_type,
                   selling |-> row.selling,
                   dep_time |-> dep_time,
                   arr_time |-> arr_time,
                   departure |-> dep_time \o <<" ">> \o Strip(row.from_name.val),
                   arrival |-> arr_time \o <<" ">> \o Strip(row.to_name.val),
                   tickets |-> [i \in 1..Len(ts) |-> ts[i].value]])

\* line 59: the row is skipped by the type filter
RejectedByType(train_type, filter_types) ==
    /\ Truthy(filter_types)
    /\ ~(train_type.kind = "str" /\ train_type.val \in filter_types.val)

\* line 61: the row is skipped by the selling filter
RejectedBySelling(selling, filter_selling) ==
    ~IsNone(filter_selling) /\ ~PyEq(selling, filter_selling)

RECURSIVE ParseRows_break(_, _, _, _)
\* the loop leaving at the first rejected row (break for continue)
ParseRows_break(rows, filter_types, filter_selling, acc) ==
    IF rows = <<>> THEN Ok(acc)
    ELSE LET row == Head(rows)
         IN IF \/ RejectedByType(row.train_type, filter_types)
               \/ RejectedBySelling(row.selling, filter_selling)
            THEN Ok(acc)
            ELSE LET r == ExtractRow(row)
                 IN IF r.raised THEN Raised
                    ELSE ParseRows_break(Tail(rows), filter_types, filter_selling,
                                         Append(acc, r.value))

RECURSIVE ParseRows(_, _, _, _)
\* lines 55-106: the loop over the rows, acc the list built so far
ParseRows(rows, filter_types, filter_selling, acc) ==
    IF rows = <<>> THEN Ok(acc)
    ELSE LET row == Head(rows)
         IN IF \/ RejectedByType(row.train_type, filter_types)
               \/ RejectedBySelling(row.selling, filter_selling)
            THEN ParseRows(Tail(rows), filter_types, filter_selling, acc)
            ELSE LET r == ExtractRow(row)
                 IN IF r.raised THEN Raised
                    ELSE ParseRows(Tail(rows), filter_types, filter_selling,
                                   Append(acc, r.value))

parse_trains(doc, filter_types, filter_selling) ==
    ParseRows(doc, filter_types, filter_selling, <<>>)

(***************************************************************************)
(* filter_by_price_range                                                   *)
(***************************************************************************)
IsText(x, word) == x.kind = "str" /\ x.val = <<word>>

\* in_range with the cheap bound taken inclusive (price <= 10)
in_range_inclusive(price, price_range) ==
    IF IsNone(price) THEN FALSE
    ELSE IF IsText(price_range, "cheap") THEN price.val[1] <= Hundredths(10)
    ELSE IF IsText(price_range, "normal")
         THEN Hundredths(10) <= price.val[1] /\ price.val[1] <= Hundredths(20)
    ELSE IF IsText(price_range, "expensive") THEN price.val[1] > Hundredths(20)
    ELSE TRUE

\* in_range rejecting every price under a name it does not know
in_range_strict(price, price_range) ==
    IF IsNone(price) THEN FALSE
    ELSE IF IsText(price_range, "cheap") THEN price.val[1] < Hundredths(10)
    ELSE IF IsText(price_range, "normal")
         THEN Hundredths(10) <= price.val[1] /\ price.val[1] <= Hundredths(20)
    ELSE IF IsText(price_range, "expensive") THEN price.val[1] > Hundredths(20)
    ELSE FALSE

\* lines 113-122
in_range(price, price_range) ==
    IF IsNone(price) THEN FALSE
    ELSE IF IsText(price_range, "cheap") THEN price.val[1] < Hundredths(10)
    ELSE IF IsText(price_range, "normal")
         THEN Hundredths(10) <= price.val[1] /\ price.val[1] <= Hundredths(20)
    ELSE IF IsText(price_range, "expensive") THEN price.val[1] > Hundredths(20)
    ELSE TRUE

\* lines 126-130
keep(t, price_range) ==
    \E i \in 1..Len(t.tickets) : in_range(t.tickets[i].min_price, price_range)

filter_by_price_range(ts, price_range) ==
    IF ~Truthy(price_range) THEN ts
    ELSE SelectSeq(ts, LAMBDA t : keep(t, price_range))

(***************************************************************************)
(* time_to_category and print_trains_grouped                               *)
(***************************************************************************)
Sections == <<"Noch", "Utro", "Den", "Vecher">>

At(s, i) == IF i <= Len(s) THEN s[i] ELSE "EOS"

\* The directive %H at position i: the length it matches, trying the
\* alternatives 2[0-3], [0-1]\d, \d in this order, each only if ":" follows;
\* 0 if none does.
MatchHour(s, i) ==
    IF /\ At(s, i) = "2" /\ At(s, i + 1) \in {"0", "1", "2", "3"}
       /\ At(s, i + 2) = ":" THEN 2
    ELSE IF /\ At(s, i) \in {"0", "1"} /\ IsDigit(At(s, i + 1))
            /\ At(s, i + 2) = ":" THEN 2
    ELSE IF IsDigit(At(s, i)) /\ At(s, i + 1) = ":" THEN 1
    ELSE 0

\* The directive %M at position i: [0-5]\d, else \d; 0 if neither matches.
MatchMinute(s, i) ==
    IF At(s, i) \in {"0", "1", "2", "3", "4", "5"} /\ IsDigit(At(s, i + 1)) THEN 2
    ELSE IF IsDigit(At(s, i)) THEN 1
    ELSE 0

\* datetime.strptime(dep_time, "%H:%M").hour; raised for the ValueError of a
\* text the format does not match or does not match to its end.
strptime_hour(s) ==
    LET h == MatchHour(s, 1)
        m == MatchMinute(s, h + 2)
    IN IF h = 0 \/ m = 0 \/ h + 1 + m # Len(s) THEN Raised
       ELSE Ok(DigitsValue(SubSeq(s, 1, h)))

\* the segments with their upper bounds taken inclusive (h <= 6, ...)
time_to_category_inclusive(dep_time) ==
    LET dt == strptime_hour(dep_time)
    IN IF dt.raised THEN Raised
       ELSE LET h == dt.value
            IN IF 0 <= h /\ h <= 6 THEN Ok("Noch")
               ELSE IF 6 <= h /\ h <= 12 THEN Ok("Utro")
               ELSE IF 12 <= h /\ h <= 18 THEN Ok("Den")
               ELSE Ok("Vecher")

time_to_category(dep_time) ==
    LET dt == strptime_hour(dep_time)
    IN IF dt.raised THEN Raised
       ELSE LET h == dt.value
            IN IF 0 <= h /\ h < 6 THEN Ok("Noch")
               ELSE IF 6 <= h /\ h < 12 THEN Ok("Utro")
               ELSE IF 12 <= h /\ h < 18 THEN Ok("Den")
               ELSE Ok("Vecher")

\* lines 143-151
train_icon(train_type) ==
    IF IsText(train_type, "international") THEN "GLOBE"
    ELSE IF IsText(train_type, "regional_business") THEN "BRIEFCASE"
    ELSE IF IsText(train_type, "interregional_economy") THEN "TRAIN"
    ELSE IF IsText(train_type, "interregional_business") THEN "BULLET_TRAIN"
    ELSE IF IsText(train_type, "regional_economy") THEN "BUS"
    ELSE "QUESTION"

\* line 175
SectionLine(section) == <<"NL", "=== ", section, " ===">>

\* lines 177-190
TrainLine(t) ==
    <<IF IsText(t.train_type, "international")
         \/ IsText(t.train_type, "regional_business")
      THEN "BLUE+BRIGHT" ELSE "RESET_ALL",
      train_icon(t.train_type), " Poezd ">>
    \o Format(t.number) \o <<" ">> \o t.departure \o <<" ARROW ">> \o t.arrival
    \o (IF IsText(t.selling, "false") THEN <<" CROSS">> ELSE <<>>)
    \o <<"RESET_ALL">>

\* lines 192-201
TicketLine(ticket) ==
    <<"  ", IF ticket.type = <<"Sidyachij">> THEN "GREEN+BRIGHT" ELSE "RESET_ALL">>
    \o ticket.type \o <<": ">> \o ticket.seats \o <<" mest, ">> \o ticket.price
    \o <<"RESET_ALL">>

RECURSIVE Flatten(_)
Flatten(ss) == IF ss = <<>> THEN <<>> ELSE Head(ss) \o Flatten(Tail(ss))

\* lines 176-201: the lines of one train
TrainLines(t) ==
    <<TrainLine(t)>> \o [i \in 1..Len(t.tickets) |-> TicketLine(t.tickets[i])]

RECURSIVE Group_prepend(_, _)
\* the loop putting each record at the front of its list
Group_prepend(ts, grouped) ==
    IF ts = <<>> THEN Ok(grouped)
    ELSE LET cat == time_to_category(Head(ts).dep_time)
         IN IF cat.raised THEN Raised
            ELSE Group_prepend(Tail(ts),
                               [grouped EXCEPT ![cat.value] = <<Head(ts)>> \o @])

RECURSIVE Group(_, _)
\* lines 167-170: the loop that fills grouped; raised when a time does not parse
Group(ts, grouped) ==
    IF ts = <<>> THEN Ok(grouped)
    ELSE LET cat == time_to_category(Head(ts).dep_time)
         IN IF cat.raised THEN Raised
            ELSE Group(Tail(ts),
                       [grouped EXCEPT ![cat.value] = Append(@, Head(ts))])

\* lines 172-201: the lines printed for grouped, section by section
RenderGrouped(grouped) ==
    Flatten([k \in 1..Len(Sections) |->
                LET items == grouped[Sections[k]]
                IN IF items = <<>> THEN <<>>
                   ELSE <<SectionLine(Sections[k])>>
                        \o Flatten([i \in 1..Len(items) |-> TrainLines(items[i])])])

RECURSIVE print_trains_one_by_one(_)
\* printing each record as soon as it is categorized
print_trains_one_by_one(ts) ==
    IF ts = <<>> THEN Ok(<<>>)
    ELSE LET cat == time_to_category(Head(ts).dep_time)
         IN IF cat.raised THEN Raised
            ELSE LET rest == print_trains_one_by_one(Tail(ts))
                 IN [raised |-> rest.raised,
                     value |-> <<SectionLine(cat.value)>> \o TrainLines(Head(ts))
                                   \o rest.value]

\* The lines printed, and whether the call raised.
print_trains_grouped(ts) ==
    LET g == Group(ts, [k \in Range(Sections) |-> <<>>])
    IN IF g.raised THEN Raised ELSE Ok(RenderGrouped(g.value))

(***************************************************************************)
(* main: the argparse namespace is a function from attribute names to      *)
(* values; presets is the content of presets.json, a function from preset  *)
(* names to dicts; html is the parsed document the site serves.            *)
(***************************************************************************)
dest_from_city == <<"from", "_", "city">>

dest_to_city == <<"to", "_", "city">>

dest_date == <<"date">>

dest_train_types == <<"train", "_", "types">>

dest_selling == <<"selling">>

dest_price_range == <<"price", "_", "range">>

dest_list_types == <<"list", "_", "types">>

dest_preset == <<"preset">>

Dests ==
    {dest_from_city, dest_to_city, dest_date, dest_train_types, dest_selling,
     dest_price_range, dest_list_types, dest_preset}

\* line 215: the namespace argparse builds when no option is given
NoArgs == [a \in Dests |-> IF a = dest_list_types THEN Bool(FALSE) ELSE None]

\* line 16: data.get(preset_name)
load_preset(preset_name, data) ==
    IF preset_name \in DOMAIN data THEN Dict(data[preset_name]) ELSE None

\* line 226
ArgKey(key) == Replace(key, "-", "_")

\* lines 225-228: getattr raises AttributeError for a key that names no option
MergeRaises(ns, preset_data) == \E key \in DOMAIN preset_data : ArgKey(key) \notin DOMAIN ns

\* the merge letting the preset's value win over the caller's
Merge_preset_wins(ns, preset_data) ==
    [a \in DOMAIN ns |->
        IF \E key \in DOMAIN preset_data : ArgKey(key) = a
        THEN preset_data[CHOOSE key \in DOMAIN preset_data : ArgKey(key) = a]
        ELSE ns[a]]

\* lines 225-228: the namespace after the loop (no two keys of a preset of the
\* model name the same option)
Merge(ns, preset_data) ==
    [a \in DOMAIN ns |->
        IF IsNone(ns[a]) /\ \E key \in DOMAIN preset_data : ArgKey(key) = a
        THEN preset_data[CHOOSE key \in DOMAIN preset_data : ArgKey(key) = a]
        ELSE ns[a]]

\* the validation forgetting the date
MissingRequired_no_date(ns) ==
    \/ ~Truthy(ns[dest_from_city])
    \/ ~Truthy(ns[dest_to_city])

\* line 232
MissingRequired(ns) ==
    \/ ~Truthy(ns[dest_from_city])
    \/ ~Truthy(ns[dest_to_city])
    \/ ~Truthy(ns[dest_date])

\* cities.csv: the aliases it lists
Cities == {<<"minsk">>, <<"brest">>, <<"gomel">>}

DaysInMonth(y, m) ==
    IF m = 2 THEN (IF (y % 4 = 0 /\ y % 100 # 0) \/ y % 400 = 0 THEN 29 ELSE 28)
    ELSE IF m \in {4, 6, 9, 11} THEN 30 ELSE 31

\* line 237: datetime.strptime(args.date, "%Y-%m-%d") raises ValueError
DateRaises(text) ==
    LET parts == Split(text, "-")
    IN ~(/\ Len(parts) = 3
         /\ \A i \in 1..3 : AllDigits(parts[i]) /\ parts[i] # <<>>
         /\ Len(parts[1]) = 4
         /\ Len(parts[2]) <= 2 /\ Len(parts[3]) <= 2
         /\ DigitsValue(parts[2]) \in 1..12
         /\ DigitsValue(parts[3]) >= 1
         /\ DigitsValue(parts[3])
                <= DaysInMonth(DigitsValue(parts[1]), DigitsValue(parts[2])))

\* lines 30-31: codes[from_city], codes[to_city] raise KeyError
UrlRaises(ns) == ns[dest_from_city].val \notin Cities \/ ns[dest_to_city].val \notin Cities

\* lines 136-140
list_train_types(doc) ==
    Sorted({doc[i].train_type.val : i \in {j \in 1..Len(doc) : Truthy(doc[j].train_type)}})

\* lines 250-255
filter_types_of(train_types) ==
    IF Truthy(train_types)
    THEN IF train_types.kind = "list" THEN PySet(Range(train_types.val))
         ELSE PySet({Strip(piece) : piece \in Range(Split(train_types.val, ","))})
    ELSE None

Last(s) == IF s = <<>> THEN "" ELSE s[Len(s)]

\* lines 218-228
ResolvePreset ==
    /\ pc = "resolve"
    /\ IF Truthy(args[dest_preset])
       THEN LET preset_data == load_preset(args[dest_preset].val, presets)
            IN /\ work' = Append(work, "load_preset")
               /\ IF ~Truthy(preset_data)
                  THEN /\ stdout' = Append(stdout, <<"Preset '">> \o args[dest_preset].val
                                                       \o <<"' not found.">>)
                       /\ pc' = "done"
                       /\ args' = args
                  ELSE IF MergeRaises(args, preset_data.val)
                  THEN /\ pc' = "crashed"
                       /\ UNCHANGED <<args, stdout>>
                  ELSE /\ args' = Merge(args, preset_data.val)
                       /\ pc' = "validate"
                       /\ stdout' = stdout
       ELSE /\ pc' = "validate"
            /\ UNCHANGED <<args, stdout, work>>
    /\ UNCHANGED <<argv, presets, html, trains>>

\* lines 231-234
Validate ==
    /\ pc = "validate"
    /\ IF MissingRequired(args)
       THEN /\ stdout' = Append(stdout,
                   <<"Error: --from, --to and --date are required (either directly or via preset).">>)
            /\ pc' = "done"
       ELSE /\ pc' = "fetch"
            /\ stdout' = stdout
    /\ UNCHANGED <<argv, args, presets, html, trains, work>>

\* lines 236-241: the city table is read, the URL built and the page fetched;
\* the request may fail (raise_for_status, a connection error)
Fetch ==
    /\ pc = "fetch"
    /\ IF DateRaises(args[dest_date].val) \/ UrlRaises(args)
       THEN /\ work' = Append(work, "load_city_codes")
            /\ pc' = "crashed"
       ELSE /\ work' = work \o <<"load_city_codes", "requests.get">>
            /\ pc' \in {"list_types", "crashed"}
    /\ UNCHANGED <<argv, args, presets, html, trains, stdout>>

\* lines 243-248
ListTypes ==
    /\ pc = "list_types"
    /\ IF Truthy(args[dest_list_types])
       THEN LET types == list_train_types(html)
            IN /\ work' = Append(work, "list_train_types")
               /\ stdout' = stdout \o <<<<"Train types found in response:">>>>
                                   \o [i \in 1..Len(types) |-> <<"  - ">> \o types[i]]
               /\ pc' = "done"
       ELSE /\ pc' = "parse"
            /\ UNCHANGED <<stdout, work>>
    /\ UNCHANGED <<argv, args, presets, html, trains>>

\* lines 250-257
Parse ==
    /\ pc = "parse"
    /\ LET r == parse_trains(html, filter_types_of(args[dest_train_types]),
                             args[dest_selling])
       IN /\ trains' = r.value
          /\ pc' = IF r.raised THEN "crashed" ELSE "filter_price"
    /\ work' = Append(work, "parse_trains")
    /\ UNCHANGED <<argv, args, presets, html, stdout>>

\* line 258
FilterPrice ==
    /\ pc = "filter_price"
    /\ trains' = filter_by_price_range(trains, args[dest_price_range])
    /\ work' = Append(work, "filter_by_price_range")
    /\ pc' = "report"
    /\ UNCHANGED <<argv, args, presets, html, stdout>>

\* lines 260-264
Report ==
    /\ pc = "report"
    /\ IF trains = <<>>
       THEN /\ stdout' = Append(stdout, <<"No trains available with this criteria">>)
            /\ pc' = "done"
            /\ work' = work
       ELSE LET r == print_trains_grouped(trains)
            IN /\ stdout' = stdout \o r.value
               /\ pc' = IF r.raised THEN "crashed" ELSE "done"
               /\ work' = Append(work, "print_trains_grouped")
    /\ UNCHANGED <<argv, args, presets, html, trains>>

Next ==
    \/ ResolvePreset
    \/ Validate
    \/ Fetch
    \/ ListTypes
    \/ Parse
    \/ FilterPrice
    \/ Report

\* The state when main has parsed its arguments (line 215).
Start(ns, data, doc) ==
    /\ pc = "resolve"
    /\ argv = ns
    /\ args = ns
    /\ presets = data
    /\ html = doc
    /\ trains = <<>>
    /\ stdout = <<>>
    /\ work = <<>>

(***************************************************************************)
(* The inputs of the runs checked                                          *)
(***************************************************************************)
MaxRows == 2

MaxItems == 2

MaxTokens == 2

MaxReportRows == 3

\* All sequences over S of length at most n.
SeqsUpTo(S, n) == UNION {[1..k -> S] : k \in 0..n}

GoodDate == <<"2", "0", "2", "5", "-", "1", "1", "-", "0", "5">>

GoodArgs ==
    [NoArgs EXCEPT ![dest_from_city] = Str(<<"minsk">>),
                   ![dest_to_city] = Str(<<"brest">>),
                   ![dest_date] = Str(GoodDate)]

Weekend == <<"weekend">>

\* presets.json with the single preset "weekend"
PresetFile(d) == [n \in {Weekend} |-> d]

NoPresets == PresetFile([k \in {<<"selling">>} |-> Str(<<"true">>)])

Item(costs, currencies) ==
    [t_name |-> Str(<<"Sidyachij">>), qty |-> Str(<<"1", "2">>),
     costs |-> costs, currencies |-> currencies]

Row(train_type, sell, dep_time, items) ==
    [train_type |-> train_type, selling |-> sell, number |-> Str(<<"601B">>),
     from_time |-> Str(dep_time), to_time |-> Str(<<"0", "9", ":", "3", "0">>),
     from_name |-> Str(<<" ", "Minsk", " ">>), to_name |-> Str(<<"Brest">>),
     items |-> items]

\* The rows numbered by their place in the document.
Numbered(doc) ==
    [i \in 1..Len(doc) |-> [doc[i] EXCEPT !.number = Str(<<"6", "0", Digits[i + 1]>>)]]

T0710 == <<"0", "7", ":", "1", "0">>

T2340 == <<"2", "3", ":", "4", "0">>

International == Str(<<"international">>)

RegionalEconomy == Str(<<"regional_economy">>)

(***************************************************************************)
(* SpecPrice: documents whose tickets carry the prices at and around the   *)
(* bracket boundaries, under every price-range a run can have.             *)
(***************************************************************************)
PriceTexts ==
    {<<"EMDASH">>, <<"0">>, <<"9", ",", "9", "9">>, <<"1", "0">>, <<"2", "0">>,
     <<"2", "0", ".", "0", "1">>}

BYN == <<"B", "Y", "N">>

PriceItems == {Item(<<c>>, <<BYN>>) : c \in PriceTexts}

RichRows ==
    {Row(International, Str(<<"true">>), T0710, items) :
        items \in SeqsUpTo(PriceItems, MaxItems)}

SimpleRows ==
    {Row(RegionalEconomy, Str(<<"true">>), T2340, items) :
        items \in {<<>>, <<Item(<<<<"1", "5", ",", "5", "0">>>>, <<BYN>>)>>,
                   <<Item(<<<<"2", "5">>>>, <<BYN>>)>>}}

PriceDocs ==
    {<<>>} \cup {Numbered(<<r>> \o tail) :
                    r \in RichRows, tail \in SeqsUpTo(SimpleRows, MaxRows - 1)}

\* --price-range accepts only the three names; a preset may hold any value.
PriceCriteria ==
    {[ns |-> [GoodArgs EXCEPT ![dest_price_range] = b], data |-> NoPresets] :
        b \in {None, Str(<<"cheap">>), Str(<<"normal">>), Str(<<"expensive">>)}}
    \cup
    {[ns |-> [GoodArgs EXCEPT ![dest_preset] = Str(Weekend)],
      data |-> PresetFile([k \in {<<"price", "-", "range">>} |-> v])] :
        v \in {Str(<<"normal">>), Str(<<"luxury">>), Str(<<>>)}}

InitPrice == \E doc \in PriceDocs, c \in PriceCriteria : Start(c.ns, c.data, doc)

SpecPrice == InitPrice /\ [][Next]_vars

\* The records parse_trains returns in this run: the input of the price filter.
Parsed ==
    parse_trains(html, filter_types_of(args[dest_train_types]), args[dest_selling]).value

Filtered == pc = "report" /\ Last(work) = "filter_by_price_range"

InBracket(p, bracket) ==
    CASE bracket = "cheap" -> p < Hundredths(10)
      [] bracket = "normal" -> p >= Hundredths(10) /\ p <= Hundredths(20)
      [] bracket = "expensive" -> p > Hundredths(20)

HasTicketInBracket(t, bracket) ==
    \E i \in 1..Len(t.tickets) :
        /\ ~IsNone(t.tickets[i].min_price)
        /\ InBracket(t.tickets[i].min_price.val[1], bracket)

HasPricedTicket(t) == \E i \in 1..Len(t.tickets) : ~IsNone(t.tickets[i].min_price)

Brackets == {"cheap", "normal", "expensive"}

\* C1: under a bracket of cheap, normal, expensive the price filter keeps
\* exactly the records with a ticket whose min_price is present and in the
\* bracket's range (cheap < 10, 10 <= normal <= 20, expensive > 20), in their
\* order; under None it keeps every record.
C1_PriceBracketFilter ==
    Filtered =>
        LET b == args[dest_price_range]
        IN /\ \A name \in Brackets :
                  IsText(b, name) =>
                      trains = SelectSeq(Parsed, LAMBDA t : HasTicketInBracket(t, name))
           /\ IsNone(b) => trains = Parsed

\* C1 witness: under cheap, a record whose only ticket costs 0 is kept while
\* a record with no priced ticket and one at exactly 10 are dropped.
C1_Witness ==
    /\ Filtered
    /\ IsText(args[dest_price_range], "cheap")
    /\ \E i \in 1..Len(trains) :
           /\ Len(trains[i].tickets) = 1
           /\ trains[i].tickets[1].min_price = Float(0)
    /\ \E i \in 1..Len(Parsed) : ~HasPricedTicket(Parsed[i])
    /\ \A i \in 1..Len(trains) : HasPricedTicket(trains[i])
    /\ Len(trains) < Len(Parsed)

\* C10: under a non-empty price-range that is none of the three names the
\* filter keeps exactly the records with a priced ticket, whatever the price.
C10_UnrecognisedBracket ==
    Filtered =>
        LET b == args[dest_price_range]
        IN (Truthy(b) /\ \A name \in Brackets : ~IsText(b, name)) =>
               trains = SelectSeq(Parsed, HasPricedTicket)

\* C10 witness: the preset's "luxury" reached the filter, which kept a priced
\* record and dropped an unpriced one.
C10_Witness ==
    /\ Filtered
    /\ IsText(args[dest_price_range], "luxury")
    /\ trains # <<>>
    /\ Len(trains) < Len(Parsed)

(***************************************************************************)
(* SpecParse: documents of rows of every type and selling flag, complete   *)
(* or lacking a required sub-element, under type and selling criteria      *)
(* given on the command line or by a preset.                               *)
(***************************************************************************)
OneItem == <<Item(<<<<"1", "2", ",", "0", "0">>>>, <<BYN>>)>>

CompleteRows ==
    {Row(ty, Str(<<sell>>), T0710, OneItem) :
        ty \in {None, International, RegionalEconomy}, sell \in {"true", "false"}}

IncompleteRows ==
    {[Row(International, Str(<<"true">>), T0710, OneItem) EXCEPT !.from_time = None],
     [Row(RegionalEconomy, Str(<<"false">>), T2340, OneItem) EXCEPT !.to_name = None],
     Row(International, Str(<<"false">>), T2340,
         <<[Item(<<>>, <<>>) EXCEPT !.qty = None]>>)}

ParseDocs == {Numbered(d) : d \in SeqsUpTo(CompleteRows \cup IncompleteRows, MaxRows)}

ParseCriteria ==
    {[ns |-> [GoodArgs EXCEPT ![dest_train_types] = tt, ![dest_selling] = sell],
      data |-> NoPresets] :
        tt \in {None, International,
                Str(<<"international", ",", " ", "regional_economy">>)},
        sell \in {None, Str(<<"true">>)}}
    \cup
    {[ns |-> [GoodArgs EXCEPT ![dest_preset] = Str(Weekend), ![dest_selling] = sell],
      data |-> PresetFile([k \in {<<"train", "-", "types">>} |-> tt])] :
        tt \in {List(<<>>), List(<<<<"regional_economy">>>>)},
        sell \in {None, Str(<<"true">>)}}

InitParse == \E doc \in ParseDocs, c \in ParseCriteria : Start(c.ns, c.data, doc)

SpecParse == InitParse /\ [][Next]_vars

ParseReturned == pc = "filter_price"

ParseRaised == pc = "crashed" /\ Last(work) = "parse_trains"

Numbers(rs) == [i \in 1..Len(rs) |-> rs[i].number]

\* The set a train_types criterion stands for: the items of a preset's list,
\* the trimmed names of a comma-separated option.
CriterionSet(tt) ==
    IF tt.kind = "list" THEN Range(tt.val)
    ELSE {Strip(piece) : piece \in Range(Split(tt.val, ","))}

InCriterion(row, tt) ==
    IsNone(tt) \/ (row.train_type.kind = "str" /\ row.train_type.val \in CriterionSet(tt))

\* C2: with no selling filter, the rows kept are exactly those whose
\* train_type is in the train_types set, or all of them when train_types is
\* None; the empty set keeps none.
C2_TypeFilter ==
    (ParseReturned /\ IsNone(args[dest_selling])) =>
        Numbers(trains)
            = Numbers(SelectSeq(html, LAMBDA row : InCriterion(row, args[dest_train_types])))

\* Filtering after extraction: every row is extracted, then the type and
\* selling filters are applied to the records.
ExtractThenFilter(doc, filter_types, filter_selling) ==
    LET rs == [i \in 1..Len(doc) |-> ExtractRow(doc[i])]
    IN IF \E i \in 1..Len(rs) : rs[i].raised THEN Raised
       ELSE Ok(SelectSeq([i \in 1..Len(rs) |-> rs[i].value],
                         LAMBDA t : /\ ~RejectedByType(t.train_type, filter_types)
                                    /\ ~RejectedBySelling(t.selling, filter_selling)))

FilterAfterOutcome ==
    ExtractThenFilter(html, filter_types_of(args[dest_train_types]), args[dest_selling])

SameOutcome ==
    /\ ParseRaised => FilterAfterOutcome.raised
    /\ ParseReturned => ~FilterAfterOutcome.raised /\ FilterAfterOutcome.value = trains

RejectedRow(row) ==
    \/ RejectedByType(row.train_type, filter_types_of(args[dest_train_types]))
    \/ RejectedBySelling(row.selling, args[dest_selling])

\* C3 as stated: for every document parse_trains ends as filtering after
\* extraction does: the same records in the same order, or the same abort.
C3_EarlyRejectEquivalent == (ParseReturned \/ ParseRaised) => SameOutcome

\* C3 as amended: it does so for every document whose rejected rows all have
\* their required sub-elements.
C3_EquivalentWhenRejectedRowsComplete ==
    ((ParseReturned \/ ParseRaised)
        /\ \A i \in 1..Len(html) : RejectedRow(html[i]) => ~ExtractRow(html[i]).raised)
    => SameOutcome

\* C3 witness: a document of two complete rows, one rejected and one kept.
C3_Witness ==
    /\ ParseReturned
    /\ Len(html) = 2 /\ Len(trains) = 1
    /\ \A i \in 1..Len(html) : ~ExtractRow(html[i]).raised
    /\ \E i \in 1..Len(html) : RejectedRow(html[i])

(***************************************************************************)
(* SpecTicket: one row with one ticket item, its price and currency        *)
(* elements holding every short mix of real, blank and placeholder text.   *)
(***************************************************************************)
CostTexts ==
    {<<"1", "2", ",", "0", "0">>, <<" ", "9", ".", "9", "9", " ">>, <<>>, <<" ">>,
     <<"EMDASH">>}

CurrencyTexts == {BYN, <<"U", "S", "D">>, <<" ">>}

TicketDocs ==
    {<<Row(International, Str(<<"true">>), T0710,
           <<[Item(costs, currencies) EXCEPT !.t_name = Str(name)]>>)>> :
        costs \in SeqsUpTo(CostTexts, MaxTokens),
        currencies \in SeqsUpTo(CurrencyTexts, MaxTokens),
        name \in {<<"Sidyachij">>, <<" ">>}}

InitTicket == \E doc \in TicketDocs : Start(GoodArgs, NoPresets, doc)

SpecTicket == InitTicket /\ [][Next]_vars

\* C9: the display price of every ticket of every extracted record is a
\* non-empty string.
C9_DisplayPriceNeverEmpty ==
    \A i \in 1..Len(trains) :
        \A j \in 1..Len(trains[i].tickets) : trains[i].tickets[j].price # <<>>

(***************************************************************************)
(* SpecReport: documents of up to MaxReportRows rows departing in every    *)
(* segment, some with a time that does not parse, one lacking a            *)
(* sub-element.                                                            *)
(***************************************************************************)
ReportTimes ==
    {<<"0", "0", ":", "0", "0">>, <<"0", "5", ":", "5", "9">>,
     <<"0", "6", ":", "0", "0">>, <<"1", "7", ":", "5", "9">>,
     <<"2", "3", ":", "5", "9">>, <<"7", ":", "1", "0">>,
     <<"2", "5", ":", "0", "0">>}

ReportRows ==
    {Row(International, Str(<<"false">>), time, OneItem) : time \in ReportTimes}
    \cup {[Row(RegionalEconomy, Str(<<"true">>), T0710, OneItem) EXCEPT !.to_time = None]}

ReportDocs == {Numbered(d) : d \in SeqsUpTo(ReportRows, MaxReportRows)}

InitReport ==
    \E doc \in ReportDocs, tt \in {None, International} :
        Start([GoodArgs EXCEPT ![dest_train_types] = tt], NoPresets, doc)

SpecReport == InitReport /\ [][Next]_vars

\* A text strptime("%H:%M") accepts: one or two digits, ":", one or two
\* digits, the hour at most 23 and the minute at most 59.
Parseable(s) ==
    LET parts == Split(s, ":")
    IN /\ Len(parts) = 2
       /\ \A i \in 1..2 : Len(parts[i]) \in {1, 2} /\ AllDigits(parts[i])
       /\ DigitsValue(parts[1]) <= 23
       /\ DigitsValue(parts[2]) <= 59

HourOf(s) == DigitsValue(Split(s, ":")[1])

\* The segment of an hour: Night [0,6), Morning [6,12), Day [12,18),
\* Evening [18,24).
SegmentOfHour(h) ==
    IF h < 6 THEN "Noch" ELSE IF h < 12 THEN "Utro" ELSE IF h < 18 THEN "Den" ELSE "Vecher"

IsSectionLine(l) == l[1] = "NL"

IsTrainLine(l) == Len(l) >= 3 /\ l[3] = " Poezd "

IsTicketLine(l) == l[1] = "  "

IsReportLine(l) == IsSectionLine(l) \/ IsTrainLine(l) \/ IsTicketLine(l)

\* A row that is extracted lacks a required sub-element.
FatalRow == \E i \in 1..Len(html) : ~RejectedRow(html[i]) /\ ExtractRow(html[i]).raised

\* A record that reaches rendering has a departure time that does not parse.
FatalTime ==
    /\ \E k \in 1..Len(work) : work[k] = "filter_by_price_range"
    /\ \E i \in 1..Len(trains) : ~Parseable(trains[i].dep_time)

\* C4: in a run with a fatal error no report line is ever printed, and the
\* run ends in the error once the failing step is reached.
C4_NoPartialReport ==
    /\ (FatalRow \/ FatalTime) => \A k \in 1..Len(stdout) : ~IsReportLine(stdout[k])
    /\ FatalRow => pc \notin {"filter_price", "report"}
    /\ FatalTime => pc \in {"report", "crashed"}

\* C4 witness: the run aborted in rendering on a record that follows one
\* whose time parses; nothing was printed.
C4_Witness ==
    /\ pc = "crashed" /\ Last(work) = "print_trains_grouped"
    /\ Len(trains) >= 2
    /\ Parseable(trains[1].dep_time)
    /\ ~Parseable(trains[Len(trains)].dep_time)
    /\ stdout = <<>>

Rendered == pc = "done" /\ Last(work) = "print_trains_grouped"

SectionIndex(name) == CHOOSE k \in 1..Len(Sections) : Sections[k] = name

SectionLines == {k \in 1..Len(stdout) : IsSectionLine(stdout[k])}

\* The lines that print record i (its number is its place in the document).
LinesOfTrain(i) ==
    {k \in 1..Len(stdout) :
        IsTrainLine(stdout[k]) /\ SubSeq(stdout[k], 4, 6) = trains[i].number.val}

\* The section a line stands under.
SectionAbove(k) ==
    LET above == {j \in SectionLines : j < k}
    IN stdout[CHOOSE j \in above : \A j2 \in above : j2 <= j][3]

Segment(i) == SegmentOfHour(HourOf(trains[i].dep_time))

\* C7: the headers come in the order Night, Morning, Day, Evening, one for
\* each segment that has a record and none for the others; every record is
\* printed once, under the header of its departure time's segment; records
\* of one segment keep their input order.
C7_GroupingAndOrder ==
    Rendered =>
        /\ \A j, k \in SectionLines :
               j < k => SectionIndex(stdout[j][3]) < SectionIndex(stdout[k][3])
        /\ \A name \in Range(Sections) :
               (\E k \in SectionLines : stdout[k][3] = name)
                   <=> (\E i \in 1..Len(trains) : Segment(i) = name)
        /\ Cardinality({k \in 1..Len(stdout) : IsTrainLine(stdout[k])}) = Len(trains)
        /\ \A i \in 1..Len(trains) :
               /\ Cardinality(LinesOfTrain(i)) = 1
               /\ \A k \in LinesOfTrain(i) :
                      /\ \E j \in SectionLines : j < k
                      /\ SectionAbove(k) = Segment(i)
        /\ \A i, j \in 1..Len(trains) :
               (i < j /\ Segment(i) = Segment(j)) =>
                   \A k \in LinesOfTrain(i), l \in LinesOfTrain(j) : k < l

\* C7 witness: three records, the first and the third of one segment and
\* the second of an earlier one.
C7_Witness ==
    /\ Rendered
    /\ Len(trains) = 3
    /\ Segment(1) = Segment(3)
    /\ SectionIndex(Segment(2)) < SectionIndex(Segment(1))

(***************************************************************************)
(* SpecTime: one row, its departure time any two digits, ":", two digits,  *)
(* or one of the texts that are not of that form.                          *)
(***************************************************************************)
DigitChars == Range(Digits)

OddTimes ==
    {<<>>, <<"7", ":", "1", "0">>, <<"1", "2", ":", "5">>, <<"1", "2", "1", "0">>,
     <<"x", "x", ":", "x", "x">>, <<"1", "2", ":", "3", "0", ":", "0", "0">>,
     <<"0", "0", "7", ":", "1", "0">>, <<"1", "2", ":", "3", "4", "5">>,
     <<"-", "1", ":", "0", "0">>, <<"1", "2", ".", "3", "0">>,
     <<" ", "0", "5", ":", "5", "9", " ">>}

TimeTexts ==
    {<<a, b, ":", c, d>> : a \in DigitChars, b \in DigitChars,
                           c \in DigitChars, d \in DigitChars}
    \cup OddTimes

InitTime ==
    \E time \in TimeTexts :
        Start(GoodArgs, NoPresets, <<Row(International, Str(<<"true">>), time, OneItem)>>)

SpecTime == InitTime /\ [][Next]_vars

\* A text of the form HH:MM, hour 0..23 and minute 0..59.
IsHHMM(s) ==
    /\ Len(s) = 5
    /\ s[3] = ":"
    /\ \A i \in {1, 2, 4, 5} : IsDigit(s[i])
    /\ 10 * DigitVal(s[1]) + DigitVal(s[2]) <= 23
    /\ 10 * DigitVal(s[4]) + DigitVal(s[5]) <= 59

Categorized ==
    /\ pc \in {"done", "crashed"}
    /\ Last(work) = "print_trains_grouped"
    /\ Len(trains) = 1

\* C8: a time HH:MM is put in exactly one segment, the one of its hour
\* whatever its minute; a text that does not parse raises and yields none.
C8_TimePartition ==
    Categorized =>
        LET s == trains[1].dep_time
        IN /\ IsHHMM(s) =>
                  /\ pc = "done"
                  /\ {stdout[k] : k \in SectionLines}
                         = {SectionLine(SegmentOfHour(10 * DigitVal(s[1]) + DigitVal(s[2])))}
           /\ ~Parseable(s) => pc = "crashed" /\ stdout = <<>>

\* C8 witness: 05:59 was printed under Night.
C8_Witness ==
    /\ Categorized
    /\ trains[1].dep_time = <<"0", "5", ":", "5", "9">>
    /\ stdout[1] = SectionLine("Noch")

(***************************************************************************)
(* SpecResolve: every combination of options given or not on the command   *)
(* line with every preset over the option keys, on the two-row document    *)
(* of a morning train priced 12,00 BYN and an unpriced late train.         *)
(***************************************************************************)
TwoRowDoc ==
    Numbered(<<Row(Str(<<"interregional_economy">>), Str(<<"true">>), T0710, OneItem),
               Row(International, Str(<<"false">>), T2340, <<>>)>>)

\* What the command line gives an option when it gives it.
CallerValues ==
    [a \in Dests |->
        CASE a = dest_from_city -> {Str(<<"minsk">>)}
          [] a = dest_to_city -> {Str(<<"brest">>)}
          [] a = dest_date -> {Str(GoodDate), Str(<<>>)}
          [] a = dest_train_types -> {RegionalEconomy}
          [] a = dest_selling -> {Str(<<"false">>)}
          [] a = dest_price_range -> {Str(<<"cheap">>)}
          [] a = dest_list_types -> {Bool(TRUE)}
          [] a = dest_preset -> {Str(Weekend), Str(<<"missing">>), Str(<<>>)}]

Given(a) == CallerValues[a] \cup {NoArgs[a]}

Namespaces ==
    {[a \in Dests |->
        CASE a = dest_from_city -> f
          [] a = dest_to_city -> t
          [] a = dest_date -> d
          [] a = dest_train_types -> tt
          [] a = dest_selling -> s
          [] a = dest_price_range -> pr
          [] a = dest_list_types -> lt
          [] a = dest_preset -> p] :
        f \in Given(dest_from_city), t \in Given(dest_to_city), d \in Given(dest_date),
        tt \in Given(dest_train_types), s \in Given(dest_selling),
        pr \in Given(dest_price_range), lt \in Given(dest_list_types),
        p \in Given(dest_preset)}

\* What a preset holds under each key; "comment" names no option.
PresetValues ==
    [k \in {<<"from", "-", "city">>, <<"to", "-", "city">>, <<"date">>,
            <<"train", "-", "types">>, <<"selling">>, <<"price", "-", "range">>,
            <<"list", "-", "types">>, <<"comment">>} |->
        CASE k = <<"from", "-", "city">> -> Str(<<"gomel">>)
          [] k = <<"to", "-", "city">> -> Str(<<"minsk">>)
          [] k = <<"date">> -> Str(<<"2", "0", "2", "5", "-", "1", "2", "-", "2", "4">>)
          [] k = <<"train", "-", "types">> -> List(<<<<"international">>>>)
          [] k = <<"selling">> -> Str(<<"true">>)
          [] k = <<"price", "-", "range">> -> Str(<<"normal">>)
          [] k = <<"list", "-", "types">> -> Bool(TRUE)
          [] k = <<"comment">> -> Str(<<"x">>)]

PresetDicts == {[k \in K |-> PresetValues[k]] : K \in SUBSET DOMAIN PresetValues}

InitResolve ==
    \E ns \in Namespaces, d \in PresetDicts :
        /\ (ns[dest_preset] # Str(Weekend) => d = NoPresets[Weekend])
        /\ Start(ns, PresetFile(d), TwoRowDoc)

SpecResolve == InitResolve /\ [][Next]_vars

CriteriaFields ==
    {dest_from_city, dest_to_city, dest_date, dest_train_types, dest_selling,
     dest_price_range}

SameValue(a, b) == a.kind = b.kind /\ a.val = b.val

\* The preset key of an option.
KeyOf(a) == Replace(a, "_", "-")

\* The run's preset exists, holds something, names only options, and the
\* merge loop has run.
MergeDone ==
    /\ pc # "resolve"
    /\ Truthy(argv[dest_preset])
    /\ argv[dest_preset].val \in DOMAIN presets
    /\ DOMAIN presets[argv[dest_preset].val] # {}
    /\ \A k \in DOMAIN presets[argv[dest_preset].val] : ArgKey(k) \in Dests

\* C5: after the merge each criteria field the caller gave keeps the
\* caller's value, each one the caller left unset and the preset holds has
\* the preset's value, and each one the preset lacks is as the caller left it.
C5_PerFieldOverride ==
    MergeDone =>
        LET d == presets[argv[dest_preset].val]
        IN \A a \in CriteriaFields :
               /\ ~IsNone(argv[a]) => SameValue(args[a], argv[a])
               /\ (IsNone(argv[a]) /\ KeyOf(a) \in DOMAIN d) => SameValue(args[a], d[KeyOf(a)])
               /\ KeyOf(a) \notin DOMAIN d => SameValue(args[a], argv[a])

\* C5 witness: the caller gave the date, the preset holds a date and train
\* types: the caller's date stands and the preset's train types are adopted.
C5_Witness ==
    /\ MergeDone
    /\ argv[dest_date] = Str(GoodDate)
    /\ IsNone(argv[dest_train_types])
    /\ {<<"date">>, <<"train", "-", "types">>} \subseteq DOMAIN presets[Weekend]
    /\ args[dest_date] = Str(GoodDate)
    /\ args[dest_train_types].kind = "list"

\* A preset was asked for by a name that presets.json does not hold.
PresetMissing ==
    /\ argv[dest_preset].kind = "str"
    /\ argv[dest_preset].val # <<>>
    /\ argv[dest_preset].val \notin DOMAIN presets

\* Past the merge, origin, destination or date is still unset.
RequiredUnset ==
    /\ pc # "resolve"
    /\ \E a \in {dest_from_city, dest_to_city, dest_date} : IsNone(args[a])

ErrorLines ==
    {<<"Preset '">> \o argv[dest_preset].val \o <<"' not found.">>,
     <<"Error: --from, --to and --date are required (either directly or via preset).">>}

\* C6: when the preset asked for does not exist, or a required field is
\* unset after the merge, the run does nothing but read the presets, prints
\* nothing but the error, and ends there.
C6_ResolutionFailureAbortsBeforeWork ==
    (PresetMissing \/ RequiredUnset) =>
        /\ Range(work) \subseteq {"load_preset"}
        /\ stdout = <<>> \/ (Len(stdout) = 1 /\ stdout[1] \in ErrorLines)
        /\ pc \in {"resolve", "validate", "done", "crashed"}
        /\ pc = "done" => Len(stdout) = 1
        /\ pc = "crashed" =>
               /\ Truthy(argv[dest_preset])
               /\ argv[dest_preset].val \in DOMAIN presets
               /\ MergeRaises(argv, presets[argv[dest_preset].val])

\* C6 witness: every required field was given, the preset does not exist:
\* the run ended on the message, having fetched nothing.
C6_Witness ==
    /\ PresetMissing
    /\ \A a \in CriteriaFields : Truthy(argv[a])
    /\ pc = "done"
    /\ work = <<"load_preset">>

(***************************************************************************)
(* Every run checked.                                                      *)
(***************************************************************************)
Init ==
    \/ InitResolve
    \/ InitPrice
    \/ InitParse
    \/ InitTicket
    \/ InitReport
    \/ InitTime

Spec == Init /\ [][Next]_vars

====
